---- MODULE Spec2Model ----
(***************************************************************************)
(* Model of dioxus-portal: the placement solver (calc_content_range,       *)
(* calc_content_position), the PortalEntry renderer and the portal         *)
(* registry driven by the Portal / PortalAnchor / PortalContent /          *)
(* PortalOverlay components.                                               *)
(*                                                                         *)
(* Numbers.  The source computes in f64.  Lengths and coordinates are      *)
(* modelled as integers counting HALF pixels; every input is a whole       *)
(* number of pixels (an even integer), so `x * 0.5` is exact and every     *)
(* intermediate value is an integer.  NaN, infinities and rounding are     *)
(* outside the model.                                                      *)
(***************************************************************************)
EXTENDS Integers, Sequences, FiniteSets, TLC

VARIABLES
    call,             \* the solver / renderer invocation under study
    ret,              \* its result, None until it has run
    NEXT_ID,          \* the global PortalId counter
    entries,          \* PortalProviderContext.entries
    portal_scope,     \* per PortalId: the Portal component's scope
    anchor_scope,     \* per PortalId: its PortalAnchor child's scope and
                      \*   `rect` signal
    content_scope,    \* per PortalId: is its PortalContent child mounted
    overlay_scope,    \* per PortalId: is its PortalOverlay child mounted
    panic,            \* "none", or the place where an unwrap() panicked
    outlet_signal,    \* PortalOutlet's `rect` signal
    last_outlet_report, \* history: the rectangle of the latest report to
                      \*   PortalOutlet's on_rect_changed, None before any
    entry_size,       \* the `size` signal of one PortalEntry instance
    size_reported,    \* history: has that instance's on_rect_changed run
    size_writes,      \* history: the size.set calls counted in SpecLoop
    observer          \* one RectObserver: its scope and its JS-side state

pure_vars == <<call, ret>>
registry_vars == <<NEXT_ID, entries, portal_scope, anchor_scope,
                   content_scope, overlay_scope, panic>>
render_vars == <<outlet_signal, last_outlet_report, entry_size, size_reported,
                 size_writes>>
vars == <<call, ret, NEXT_ID, entries, portal_scope, anchor_scope,
          content_scope, overlay_scope, panic, outlet_signal,
          last_outlet_report, entry_size, size_reported, size_writes,
          observer>>

----------------------------------------------------------------------------
(* Bounds of the model *)

MaxCoord == 3      \* coordinates range over 0 .. MaxCoord pixels
MaxLength == 2     \* content lengths range over 0 .. MaxLength pixels
MaxOffset == 1     \* offsets range over -MaxOffset .. MaxOffset pixels
MaxPortals == 2    \* number of Portal components ever mounted
MaxLayer == 1      \* layers range over 0 .. MaxLayer
MaxInFlight == 2   \* payloads a RectObserver has sent that are not yet received
MaxWrites == 3     \* size.set calls of one PortalEntry that are followed

Px(n) == 2 * n     \* n whole pixels, in half-pixel units

----------------------------------------------------------------------------
(* Option<T>: None is the empty sequence, Some(x) the one-element sequence *)

None == <<>>
Some(x) == <<x>>
is_some(o) == o # <<>>
is_none(o) == o = <<>>
unwrap(o) == o[1]

----------------------------------------------------------------------------
(* Types for placement control *)

Alignment == {"Start", "Center", "End"}
Spread == {"Inside", "Outside"}
OverflowPolicy == {"Ignore", "Shrink", "Clamp", "Flip"}

AxisParam(a, s, o, p) ==
    [alignment |-> a, spread |-> s, offset |-> o, overflow_policy |-> p]

Range(s, e) == [start |-> s, end |-> e]

Max(a, b) == IF a >= b THEN a ELSE b
Min(a, b) == IF a <= b THEN a ELSE b

\* x * 0.5 for a whole number of pixels x
Half(x) == x \div 2

----------------------------------------------------------------------------
(* calc_content_range *)

\* the desired range, before the overflow policy is applied
desired_offset_sign_slip(length, param, base) ==
    CASE param.alignment = "Center" ->
            LET base_point == Half(base.start + base.end) + param.offset
            IN  Range(base_point - Half(length), base_point + Half(length))
      [] param.alignment = "Start" /\ param.spread = "Inside" ->
            LET base_point == base.start + param.offset
            IN  Range(base_point, base_point + length)
      [] param.alignment = "Start" /\ param.spread = "Outside" ->
            LET base_point == base.start + param.offset
            IN  Range(base_point - length, base_point)
      [] param.alignment = "End" /\ param.spread = "Inside" ->
            LET base_point == base.end - param.offset
            IN  Range(base_point - length, base_point)
      [] param.alignment = "End" /\ param.spread = "Outside" ->
            LET base_point == base.end + param.offset
            IN  Range(base_point, base_point + length)

desired(length, param, base) ==
    CASE param.alignment = "Center" ->
            LET base_point == Half(base.start + base.end) + param.offset
            IN  Range(base_point - Half(length), base_point + Half(length))
      [] param.alignment = "Start" /\ param.spread = "Inside" ->
            LET base_point == base.start + param.offset
            IN  Range(base_point, base_point + length)
      [] param.alignment = "Start" /\ param.spread = "Outside" ->
            LET base_point == base.start - param.offset
            IN  Range(base_point - length, base_point)
      [] param.alignment = "End" /\ param.spread = "Inside" ->
            LET base_point == base.end - param.offset
            IN  Range(base_point - length, base_point)
      [] param.alignment = "End" /\ param.spread = "Outside" ->
            LET base_point == base.end + param.offset
            IN  Range(base_point, base_point + length)

\* OverflowPolicy::Shrink
shrink_both_ends_to_start(d, bounds) ==
    Range(Max(d.start, bounds.start), Min(d.end, bounds.start))

shrink(d, bounds) ==
    Range(Max(d.start, bounds.start), Min(d.end, bounds.end))

\* OverflowPolicy::Clamp, by alignment
clamp_start_keeps_start(length, alignment, d, bounds) ==
    CASE alignment = "Center" -> d
      [] alignment = "Start" ->
            IF bounds.end < d.end
            THEN Range(d.start, bounds.end)
            ELSE d
      [] alignment = "End" ->
            IF d.start < bounds.start
            THEN Range(bounds.start, bounds.start + length)
            ELSE d

clamp_end_also_slides_back(length, alignment, d, bounds) ==
    CASE alignment = "Center" -> d
      [] alignment = "Start" ->
            IF bounds.end < d.end
            THEN Range(bounds.end - length, bounds.end)
            ELSE d
      [] alignment = "End" ->
            IF d.start < bounds.start
            THEN Range(bounds.start, bounds.start + length)
            ELSE IF bounds.end < d.end
                 THEN Range(bounds.end - length, bounds.end)
                 ELSE d

clamp_center_clamped(length, alignment, d, bounds) ==
    CASE alignment = "Center" ->
            IF bounds.end < d.end
            THEN Range(bounds.end - length, bounds.end)
            ELSE d
      [] alignment = "Start" ->
            IF bounds.end < d.end
            THEN Range(bounds.end - length, bounds.end)
            ELSE d
      [] alignment = "End" ->
            IF d.start < bounds.start
            THEN Range(bounds.start, bounds.start + length)
            ELSE d

clamp_inverted_slide(length, alignment, d, bounds) ==
    CASE alignment = "Center" -> d
      [] alignment = "Start" ->
            IF bounds.end < d.end
            THEN Range(bounds.end, bounds.end - length)
            ELSE d
      [] alignment = "End" ->
            IF d.start < bounds.start
            THEN Range(bounds.start, bounds.start + length)
            ELSE d

clamp(length, alignment, d, bounds) ==
    CASE alignment = "Center" -> d
      [] alignment = "Start" ->
            IF bounds.end < d.end
            THEN Range(bounds.end - length, bounds.end)
            ELSE d
      [] alignment = "End" ->
            IF d.start < bounds.start
            THEN Range(bounds.start, bounds.start + length)
            ELSE d

\* the guard of the first (OverflowPolicy::Flip, _) arm
fits(d, bounds) == bounds.start <= d.start /\ d.end <= bounds.end

\* the AxisParam of the recursive call of the last (OverflowPolicy::Flip, _) arm
flip_param_same_alignment(param) ==
    AxisParam(param.alignment, param.spread, param.offset, "Clamp")

flip_param(param) ==
    LET flip_alignment == IF param.alignment = "Start" THEN "End" ELSE "Start"
    IN  AxisParam(flip_alignment, param.spread, param.offset, "Clamp")

\* calc_content_range, returning the range together with the number of
\* invocations of calc_content_range the computation made
RECURSIVE calc_content_range_run(_, _, _, _)
calc_content_range_run(length, param, base, bounds) ==
    LET d == desired(length, param, base)
        one(r) == [range |-> r, calls |-> 1]
    IN  CASE param.overflow_policy = "Ignore" -> one(d)
          [] param.overflow_policy = "Shrink" -> one(shrink(d, bounds))
          [] param.overflow_policy = "Clamp" ->
                one(clamp(length, param.alignment, d, bounds))
          [] param.overflow_policy = "Flip" ->
                IF param.alignment = "Center" THEN one(d)
                ELSE IF fits(d, bounds) THEN one(d)
                ELSE LET inner == calc_content_range_run(
                                      length, flip_param(param), base, bounds)
                     IN  [range |-> inner.range, calls |-> inner.calls + 1]

calc_content_range(length, param, base, bounds) ==
    calc_content_range_run(length, param, base, bounds).range

----------------------------------------------------------------------------
(* Initial state of the registry and of the component tree *)

PortalIds == 1 .. MaxPortals

\* A registry is a function whose domain is the set of ids present.
EmptyEntries == [k \in {} |-> None]
get(map, id) == IF id \in DOMAIN map THEN Some(map[id]) ELSE None
insert(map, id, data) ==
    [k \in DOMAIN map \cup {id} |-> IF k = id THEN data ELSE map[k]]
remove(map, id) == [k \in DOMAIN map \ {id} |-> map[k]]

\* PortalOutlet and PortalEntry: use_signal(|| None)
InitRender ==
    /\ outlet_signal = None
    /\ last_outlet_report = None
    /\ entry_size = None
    /\ size_reported = FALSE
    /\ size_writes = 0

\* a RectObserver that has not been rendered: nothing exists on the JS side
ObserverUnmounted ==
    [scope |-> "unmounted",      \* the component: unmounted, mounted, dropped
     effect_pending |-> FALSE,   \* use_effect queued, not yet run
     task |-> FALSE,             \* the spawned receive loop is alive
     js_queue |-> <<>>,          \* document::eval code not yet executed
     el |-> FALSE,               \* the div with this id is in the document
     reg |-> FALSE,              \* the registry Map has a record for the id
     ro |-> FALSE,               \* the record's ResizeObserver is observing
     scroll |-> FALSE,           \* the record's scroll listener is attached
     resize |-> FALSE,           \* the record's resize listener is attached
     handle_sets |-> 0,          \* {ro, onScroll, onResize} created, not released
     rafId |-> FALSE,            \* `rafId !== null`
     frames |-> 0,               \* animation frame callbacks the browser holds
     event_rect |-> <<>>,        \* the rectangle at the event that scheduled
     rect |-> [x |-> 0, y |-> 0, w |-> 2, h |-> 2],  \* its bounding rectangle
     channel |-> <<>>,           \* payloads sent by dioxus.send, not received
     delivered |-> <<>>,         \* the last Rect given to on_rect_changed
     stopped |-> FALSE,          \* the stop code has run
     sent_after_stop |-> FALSE,  \* a frame sent a payload after the stop code
     delivered_after_stop |-> FALSE]  \* on_rect_changed ran after the stop code

\* PortalProvider: an empty registry; no Portal has been rendered yet
InitRegistry ==
    /\ NEXT_ID = 0
    /\ entries = EmptyEntries
    /\ portal_scope = [id \in PortalIds |-> "unmounted"]
    /\ anchor_scope = [id \in PortalIds |-> [mounted |-> FALSE, rect |-> None]]
    /\ content_scope = [id \in PortalIds |-> FALSE]
    /\ overlay_scope = [id \in PortalIds |-> FALSE]
    /\ panic = "none"
    /\ InitRender
    /\ observer = ObserverUnmounted

----------------------------------------------------------------------------
(* Inputs of calc_content_range *)

Coords == {Px(k) : k \in 0 .. MaxCoord}
Lengths == {Px(k) : k \in 0 .. MaxLength}
Offsets == {Px(k) : k \in (0 - MaxOffset) .. MaxOffset}
Ranges == {r \in [start : Coords, end : Coords] : r.start <= r.end}
AxisParams == {AxisParam(a, s, o, p) :
                  a \in Alignment, s \in Spread, o \in Offsets, p \in OverflowPolicy}

RangeCall(length, param, base, bounds) ==
    [fn |-> "calc_content_range", length |-> length, param |-> param,
     base |-> base, bounds |-> bounds]

\* the vertical-axis call made for anchor {x:100,y:100,w:50,h:20}, content
\* height 30, vertical param {End, Outside, 0, Clamp}, outlet height h
ScenarioRangeCall(h) ==
    RangeCall(Px(30), AxisParam("End", "Outside", 0, "Clamp"),
              Range(Px(100), Px(120)), Range(0, Px(h)))

RangeCalls ==
    {RangeCall(l, p, b, bd) : l \in Lengths, p \in AxisParams,
                              b \in Ranges, bd \in Ranges}
    \cup {ScenarioRangeCall(150), ScenarioRangeCall(130)}

NoCall == [fn |-> "none"]

InitRange ==
    /\ call \in RangeCalls
    /\ ret = None
    /\ InitRegistry

\* one evaluation of calc_content_range on the drawn input
CallCalcContentRange ==
    /\ call.fn = "calc_content_range"
    /\ ret = None
    /\ ret' = Some(calc_content_range_run(call.length, call.param,
                                          call.base, call.bounds))
    /\ UNCHANGED call
    /\ UNCHANGED <<registry_vars, render_vars, observer>>

NextRange == CallCalcContentRange

SpecRange == InitRange /\ [][NextRange]_vars

----------------------------------------------------------------------------
(* calc_content_position *)

Rect(x, y, w, h) == [x |-> x, y |-> y, w |-> w, h |-> h]
Size2D(w, h) == [width |-> w, height |-> h]
Point2D(x, y) == [x |-> x, y |-> y]

\* euclid::Rect accessors used by calc_content_position
min_x(r) == r.x
max_x(r) == r.x + r.w
min_y(r) == r.y
max_y(r) == r.y + r.h

\* Portal registration data
PortalEntryData(id, open, layer, has_anchor, measured, custom, pv, ph, content, overlay) ==
    [id |-> id, open |-> open, layer |-> layer,
     has_anchor_component |-> has_anchor,
     measured_anchor_rect |-> measured,
     custom_anchor_rect |-> custom,
     vertical_param |-> pv, horizontal_param |-> ph,
     content |-> content, overlay |-> overlay]

calc_content_position_keeps_spread(data, content_size, anchor, bounds) ==
    LET bounds_v == Range(min_y(bounds), max_y(bounds))
        bounds_h == Range(min_x(bounds), max_x(bounds))
    IN  IF is_some(anchor)
        THEN LET a == unwrap(anchor)
                 anchor_v == Range(min_y(a), max_y(a))
                 anchor_h == Range(min_x(a), max_x(a))
                 range_v == calc_content_range(content_size.height,
                                data.vertical_param, anchor_v, bounds_v)
                 range_h == calc_content_range(content_size.width,
                                data.horizontal_param, anchor_h, bounds_h)
             IN  Point2D(range_h.start, range_v.start)
        ELSE LET range_v == calc_content_range(content_size.height,
                                data.vertical_param, bounds_v, bounds_v)
                 range_h == calc_content_range(content_size.width,
                                data.horizontal_param, bounds_h, bounds_h)
             IN  Point2D(range_h.start, range_v.start)

calc_content_position(data, content_size, anchor, bounds) ==
    LET bounds_v == Range(min_y(bounds), max_y(bounds))
        bounds_h == Range(min_x(bounds), max_x(bounds))
    IN  IF is_some(anchor)
        THEN LET a == unwrap(anchor)
                 anchor_v == Range(min_y(a), max_y(a))
                 anchor_h == Range(min_x(a), max_x(a))
                 range_v == calc_content_range(content_size.height,
                                data.vertical_param, anchor_v, bounds_v)
                 range_h == calc_content_range(content_size.width,
                                data.horizontal_param, anchor_h, bounds_h)
             IN  Point2D(range_h.start, range_v.start)
        ELSE LET param_v == [data.vertical_param EXCEPT !.spread = "Inside"]
                 param_h == [data.horizontal_param EXCEPT !.spread = "Inside"]
                 range_v == calc_content_range(content_size.height,
                                param_v, bounds_v, bounds_v)
                 range_h == calc_content_range(content_size.width,
                                param_h, bounds_h, bounds_h)
             IN  Point2D(range_h.start, range_v.start)

----------------------------------------------------------------------------
(* Inputs of calc_content_position *)

\* the defaults of PortalProps
DefaultVerticalParam == AxisParam("End", "Outside", 0, "Clamp")
DefaultHorizontalParam == AxisParam("Center", "Inside", 0, "Clamp")

AnchorRects == {Rect(Px(1), Px(1), Px(1), Px(1)),
                Rect(Px(MaxCoord), 0, Px(1), Px(2))}
OutletRects == {Rect(0, 0, Px(MaxCoord), Px(MaxCoord)),
                Rect(Px(1), Px(1), Px(2), Px(1))}
ContentSizes == {Size2D(Px(1), Px(2)), Size2D(Px(MaxLength), Px(1))}
PositionParams == {AxisParam(a, s, o, p) :
                      a \in Alignment, s \in Spread,
                      o \in {0, Px(MaxOffset)}, p \in OverflowPolicy}

\* a record as Portal registers it, with the given axis params
ParamData(pv, ph) ==
    PortalEntryData(1, TRUE, 0, FALSE, None, None, pv, ph, None, None)

PositionCall(data, content_size, anchor, bounds) ==
    [fn |-> "calc_content_position", data |-> data,
     content_size |-> content_size, anchor |-> anchor, bounds |-> bounds]

\* no anchor, bounds {x:0,y:0,w:800,h:600}, content {w:200,h:100}, Center on
\* both axes
ScenarioPositionCall ==
    PositionCall(ParamData(AxisParam("Center", "Outside", 0, "Clamp"),
                           AxisParam("Center", "Inside", 0, "Clamp")),
                 Size2D(Px(200), Px(100)), None,
                 Rect(0, 0, Px(800), Px(600)))

PositionCalls ==
    {PositionCall(ParamData(pv, ph), sz, a, b) :
        pv \in PositionParams, ph \in PositionParams, sz \in ContentSizes,
        a \in {None} \cup {Some(r) : r \in AnchorRects}, b \in OutletRects}
    \cup {ScenarioPositionCall}

InitPosition ==
    /\ call \in PositionCalls
    /\ ret = None
    /\ InitRegistry

\* one evaluation of calc_content_position on the drawn input
CallCalcContentPosition ==
    /\ call.fn = "calc_content_position"
    /\ ret = None
    /\ ret' = Some(calc_content_position(call.data, call.content_size,
                                         call.anchor, call.bounds))
    /\ UNCHANGED call
    /\ UNCHANGED <<registry_vars, render_vars, observer>>

NextPosition == CallCalcContentPosition

SpecPosition == InitPosition /\ [][NextPosition]_vars

----------------------------------------------------------------------------
(* The registry (HashMap<PortalId, PortalEntryData>) and PortalEntry *)

\* PortalEntry: `anchor_preparing`
anchor_preparing_ignores_custom(data) ==
    data.has_anchor_component /\ is_none(data.measured_anchor_rect)

anchor_preparing(data) ==
    LET use_custom_anchor == is_some(data.custom_anchor_rect)
    IN  /\ ~use_custom_anchor
        /\ data.has_anchor_component
        /\ is_none(data.measured_anchor_rect)

\* PortalEntry: `anchor_rect`
entry_anchor_rect(data) ==
    LET use_custom_anchor == is_some(data.custom_anchor_rect)
    IN  IF use_custom_anchor THEN data.custom_anchor_rect
                             ELSE data.measured_anchor_rect

\* What one render of PortalEntry produces, given its props, the value of its
\* `size` signal and the registry: a panic (unwrap of a missing record),
\* nothing (rsx! {}), or the RectObserver element with its style.
PortalEntry_viewport_relative(props, size, map) ==
    LET found == get(map, props.id)
    IN  IF is_none(found) THEN [kind |-> "panic"]
        ELSE
        LET data == unwrap(found)
            has_content == is_some(data.content)
        IN  IF anchor_preparing(data) \/ ~has_content THEN [kind |-> "empty"]
            ELSE
            LET anchor_rect == entry_anchor_rect(data)
                content_props == unwrap(data.content)
            IN  IF is_none(size)
                THEN [kind |-> "content", style |-> content_props.style,
                      z_index |-> props.z_index, opacity |-> 0,
                      pointer_events |-> "none", position |-> None]
                ELSE LET pos == calc_content_position(
                                    data, unwrap(size), anchor_rect,
                                    props.outlet_rect)
                         top == pos.y
                         left == pos.x
                     IN  [kind |-> "content", style |-> content_props.style,
                          z_index |-> props.z_index, opacity |-> 1,
                          pointer_events |-> "auto",
                          position |-> Some([top |-> top, left |-> left])]

PortalEntry(props, size, map) ==
    LET found == get(map, props.id)
    IN  IF is_none(found) THEN [kind |-> "panic"]
        ELSE
        LET data == unwrap(found)
            has_content == is_some(data.content)
        IN  IF anchor_preparing(data) \/ ~has_content THEN [kind |-> "empty"]
            ELSE
            LET anchor_rect == entry_anchor_rect(data)
                content_props == unwrap(data.content)
            IN  IF is_none(size)
                THEN [kind |-> "content", style |-> content_props.style,
                      z_index |-> props.z_index, opacity |-> 0,
                      pointer_events |-> "none", position |-> None]
                ELSE LET pos == calc_content_position(
                                    data, unwrap(size), anchor_rect,
                                    props.outlet_rect)
                         top == pos.y - props.outlet_rect.y
                         left == pos.x - props.outlet_rect.x
                     IN  [kind |-> "content", style |-> content_props.style,
                          z_index |-> props.z_index, opacity |-> 1,
                          pointer_events |-> "auto",
                          position |-> Some([top |-> top, left |-> left])]

----------------------------------------------------------------------------
(* Inputs of PortalEntry *)

PortalEntryProps(id, z_index, outlet_rect) ==
    [id |-> id, z_index |-> z_index, outlet_rect |-> outlet_rect]

ContentProps(style) == [style |-> style]

OptionOf(S) == {None} \cup {Some(x) : x \in S}

EntryParams == {AxisParam(a, s, 0, p) :
                   a \in Alignment, s \in Spread, p \in {"Clamp", "Flip"}}

EntryDatas ==
    {PortalEntryData(1, TRUE, 0, has, measured, custom, pv,
                     DefaultHorizontalParam, content, None) :
        has \in BOOLEAN, measured \in OptionOf(AnchorRects),
        custom \in OptionOf(AnchorRects), pv \in EntryParams,
        content \in OptionOf({ContentProps("c")})}

EntryCall(props, size, map) ==
    [fn |-> "PortalEntry", props |-> props, size |-> size,
     entries |-> map]

EntryCalls ==
    {EntryCall(PortalEntryProps(1, 1, o), sz, insert(EmptyEntries, 1, d)) :
        o \in OutletRects, sz \in OptionOf(ContentSizes), d \in EntryDatas}

InitEntry ==
    /\ call \in EntryCalls
    /\ ret = None
    /\ InitRegistry

\* one render of PortalEntry on the drawn input
CallPortalEntry ==
    /\ call.fn = "PortalEntry"
    /\ ret = None
    /\ ret' = Some(PortalEntry(call.props, call.size, call.entries))
    /\ UNCHANGED call
    /\ UNCHANGED <<registry_vars, render_vars, observer>>

NextEntry == CallPortalEntry

SpecEntry == InitEntry /\ [][NextEntry]_vars

----------------------------------------------------------------------------
(* PortalEntry rendered for a layout and for the same layout moved *)

\* the rectangle r moved by the vector v
translate(r, v) == Rect(r.x + v.x, r.y + v.y, r.w, r.h)

translate_option(o, v) == IF is_some(o) THEN Some(translate(unwrap(o), v)) ELSE o

\* the record with its anchor rectangles moved by v
translate_data(data, v) ==
    [data EXCEPT !.measured_anchor_rect = translate_option(@, v),
                 !.custom_anchor_rect = translate_option(@, v)]

Shifts == {Point2D(Px(2), 0), Point2D(Px(1), Px(2))}

\* records with content: no anchor, a measured anchor, a custom anchor
TranslateDatas ==
    {PortalEntryData(1, TRUE, 0, is_some(measured), measured, custom, pv, ph,
                     Some(ContentProps("c")), None) :
        pv \in PositionParams, ph \in PositionParams,
        measured \in OptionOf({Rect(Px(1), Px(1), Px(1), Px(1))}),
        custom \in OptionOf({Rect(Px(MaxCoord), 0, Px(1), Px(2))})}

TranslateCall(props, size, map, v) ==
    [fn |-> "PortalEntryTranslated", props |-> props, size |-> size,
     entries |-> map, shift |-> v]

InitTranslate ==
    /\ \E o \in OutletRects, sz \in ContentSizes, data \in TranslateDatas,
          v \in Shifts :
          call = TranslateCall(PortalEntryProps(1, 1, o), Some(sz),
                               insert(EmptyEntries, 1, data), v)
    /\ ret = None
    /\ InitRegistry

\* PortalEntry rendered on the drawn input, and on the input with the outlet
\* rectangle and the anchor rectangles moved by the drawn vector
CallPortalEntryTranslated ==
    /\ call.fn = "PortalEntryTranslated"
    /\ ret = None
    /\ ret' = Some(
          [plain |-> PortalEntry(call.props, call.size, call.entries),
           moved |-> PortalEntry(
               [call.props EXCEPT !.outlet_rect = translate(@, call.shift)],
               call.size,
               [id \in DOMAIN call.entries |->
                   translate_data(call.entries[id], call.shift)])])
    /\ UNCHANGED <<call, registry_vars, render_vars, observer>>

NextTranslate == CallPortalEntryTranslated

SpecTranslate == InitTranslate /\ [][NextTranslate]_vars

----------------------------------------------------------------------------
(* One mounted PortalEntry: its `size` signal across renders *)

rect_size(r) == Size2D(r.w, r.h)

\* PortalEntry: the `on_rect_changed` closure, `current` being *size.read()
entry_on_rect_changed_ignores_first(current, r) ==
    IF is_some(current) /\ current # Some(rect_size(r))
    THEN Some(rect_size(r)) ELSE current

entry_on_rect_changed(current, r) ==
    IF current # Some(rect_size(r)) THEN Some(rect_size(r)) ELSE current

\* records the registry can hold for the portal of the mounted PortalEntry
InstanceDatas ==
    {PortalEntryData(1, TRUE, 0, has, measured, custom, DefaultVerticalParam,
                     DefaultHorizontalParam, content, None) :
        has \in BOOLEAN,
        measured \in OptionOf({Rect(Px(1), Px(1), Px(1), Px(1))}),
        custom \in OptionOf({Rect(Px(MaxCoord), 0, Px(1), Px(2))}),
        content \in OptionOf({ContentProps("c")})}

\* rectangles the RectObserver of the content can report
ContentRects ==
    {Rect(x, 0, sz.width, sz.height) : x \in {0, Px(1)}, sz \in ContentSizes}

InstanceCall(props, map) ==
    [fn |-> "PortalEntryInstance", props |-> props, entries |-> map]

InitInstance ==
    /\ \E o \in OutletRects, data \in InstanceDatas :
          call = InstanceCall(PortalEntryProps(1, 1, o),
                              insert(EmptyEntries, 1, data))
    /\ ret = None
    /\ InitRegistry

\* the first render of the PortalEntry
PortalEntryMount ==
    /\ call.fn = "PortalEntryInstance"
    /\ ret = None
    /\ ret' = Some(PortalEntry(call.props, entry_size, call.entries))
    /\ UNCHANGED <<call, registry_vars, render_vars, observer>>

\* the record of the portal is rewritten (Portal, PortalAnchor, PortalContent
\* rendered or dropped) and the PortalEntry, subscribed to the registry,
\* renders again with the `size` signal it has
PortalEntryRerender(data) ==
    /\ call.fn = "PortalEntryInstance"
    /\ ret # None
    /\ call' = [call EXCEPT !.entries = insert(call.entries, 1, data)]
    /\ ret' = Some(PortalEntry(call.props, entry_size, call'.entries))
    /\ UNCHANGED <<registry_vars, render_vars, observer>>

\* the RectObserver of the rendered content reports r: on_rect_changed runs
\* and, the signal written, the PortalEntry renders again
PortalEntryRectChanged(r) ==
    /\ call.fn = "PortalEntryInstance"
    /\ ret # None
    /\ unwrap(ret).kind = "content"
    /\ entry_size' = entry_on_rect_changed(entry_size, r)
    /\ size_reported' = TRUE
    /\ ret' = Some(PortalEntry(call.props, entry_size', call.entries))
    /\ UNCHANGED <<call, registry_vars, outlet_signal, last_outlet_report,
                   size_writes, observer>>

NextInstance ==
    \/ PortalEntryMount
    \/ \E data \in InstanceDatas : PortalEntryRerender(data)
    \/ \E r \in ContentRects : PortalEntryRectChanged(r)

SpecInstance == InitInstance /\ [][NextInstance]_vars

----------------------------------------------------------------------------
(* One mounted PortalEntry measuring content of a settled size *)

\* PortalEntry: `if current != new`, the test that lets size.set run
size_set_called_always(current, r) == TRUE

size_set_called(current, r) == current # Some(rect_size(r))

LoopCall(props, map, content_size) ==
    [fn |-> "PortalEntryLoop", props |-> props, entries |-> map,
     content_size |-> content_size]

\* anchor, outlet and content size fixed; the signal holds nothing or the
\* size measured before they settled
InitLoop ==
    /\ \E o \in OutletRects, data \in InstanceDatas, sz \in ContentSizes :
          call = LoopCall(PortalEntryProps(1, 1, o),
                          insert(EmptyEntries, 1, data), sz)
    /\ ret = None
    /\ NEXT_ID = 0
    /\ entries = EmptyEntries
    /\ portal_scope = [id \in PortalIds |-> "unmounted"]
    /\ anchor_scope = [id \in PortalIds |-> [mounted |-> FALSE, rect |-> None]]
    /\ content_scope = [id \in PortalIds |-> FALSE]
    /\ overlay_scope = [id \in PortalIds |-> FALSE]
    /\ panic = "none"
    /\ outlet_signal = None
    /\ last_outlet_report = None
    /\ entry_size \in OptionOf(ContentSizes)
    /\ size_reported = FALSE
    /\ size_writes = 0
    /\ observer = ObserverUnmounted

\* the PortalEntry renders with the signal as it is
LoopRender ==
    /\ call.fn = "PortalEntryLoop"
    /\ ret = None
    /\ ret' = Some(PortalEntry(call.props, entry_size, call.entries))
    /\ UNCHANGED <<call, registry_vars, render_vars, observer>>

\* the RectObserver of the rendered content reports the element somewhere
\* with its settled size; a size.set makes the PortalEntry render again
LoopRectChanged ==
    /\ call.fn = "PortalEntryLoop"
    /\ ret # None
    /\ unwrap(ret).kind = "content"
    /\ size_writes < MaxWrites
    /\ \E x, y \in {0, Px(1)} :
          LET r == Rect(x, y, call.content_size.width,
                        call.content_size.height)
          IN  IF size_set_called(entry_size, r)
              THEN /\ entry_size' = Some(rect_size(r))
                   /\ size_writes' = size_writes + 1
                   /\ ret' = Some(PortalEntry(call.props, entry_size',
                                              call.entries))
              ELSE UNCHANGED <<entry_size, size_writes, ret>>
    /\ size_reported' = TRUE
    /\ UNCHANGED <<call, registry_vars, outlet_signal, last_outlet_report,
                   observer>>

NextLoop ==
    \/ LoopRender
    \/ LoopRectChanged

\* the first render happens, and the start code of the RectObserver sends the
\* element's rectangle once the content element is rendered
SpecLoop ==
    /\ InitLoop
    /\ [][NextLoop]_vars
    /\ WF_vars(LoopRender)
    /\ WF_vars(LoopRectChanged)

----------------------------------------------------------------------------
(* RectObserver: the component, its receive loop and its JavaScript side *)

\* js_code_of_start_observer: `sendRectRaf`
sendRectRaf_unthrottled(o) ==
    [o EXCEPT !.rafId = TRUE, !.frames = @ + 1, !.event_rect = Some(o.rect)]

sendRectRaf(o) ==
    IF o.rafId THEN o
    ELSE [o EXCEPT !.rafId = TRUE, !.frames = @ + 1,
                   !.event_rect = Some(o.rect)]

\* js_code_of_start_observer: `sendRect` (dioxus.send)
sendRect(o) ==
    [o EXCEPT !.channel = Append(@, o.rect),
              !.sent_after_stop = @ \/ o.stopped]

\* js_code_of_start_observer, run as one JavaScript task
start_observer_without_has_check(o) ==
    IF ~o.el THEN o
    ELSE [sendRect(o) EXCEPT !.ro = TRUE, !.scroll = TRUE, !.resize = TRUE,
                             !.handle_sets = @ + 1, !.reg = TRUE]

start_observer(o) ==
    IF o.reg THEN o
    ELSE IF ~o.el THEN o
    ELSE [sendRect(o) EXCEPT !.ro = TRUE, !.scroll = TRUE, !.resize = TRUE,
                             !.handle_sets = @ + 1, !.reg = TRUE]

\* js_code_of_stop_observer, run as one JavaScript task
stop_observer_without_capture(o) ==
    IF o.reg
    THEN [o EXCEPT !.ro = FALSE, !.resize = FALSE, !.reg = FALSE,
                   !.handle_sets = @ - 1, !.stopped = TRUE]
    ELSE [o EXCEPT !.stopped = TRUE]

stop_observer(o) ==
    IF o.reg
    THEN [o EXCEPT !.ro = FALSE, !.scroll = FALSE, !.resize = FALSE,
                   !.handle_sets = @ - 1, !.reg = FALSE, !.stopped = TRUE]
    ELSE [o EXCEPT !.stopped = TRUE]

ObserverCall == [fn |-> "RectObserver"]

\* bounding rectangles the observed element can have
ElementRects == {Rect(x, 0, w, 2) : x \in {0, 2}, w \in {2, 4}}

InitObserver ==
    /\ call = ObserverCall
    /\ ret = None
    /\ InitRegistry

ObserverStep(o) ==
    /\ call.fn = "RectObserver"
    /\ observer' = o
    /\ UNCHANGED <<call, ret, registry_vars, render_vars>>

\* the first render of RectObserver: the effect is queued
RectObserverMount ==
    /\ observer.scope = "unmounted"
    /\ ObserverStep([observer EXCEPT !.scope = "mounted",
                                     !.effect_pending = TRUE])

\* the rendered div reaches the document
ElementAttached ==
    /\ observer.scope = "mounted"
    /\ ~observer.el
    /\ ObserverStep([observer EXCEPT !.el = TRUE])

\* use_effect: evaluate the start code and spawn the receive loop
RectObserverEffect ==
    /\ observer.scope = "mounted"
    /\ observer.effect_pending
    /\ ObserverStep([observer EXCEPT !.effect_pending = FALSE,
                                     !.js_queue = Append(@, "start"),
                                     !.task = TRUE])

\* the component is unmounted: use_drop evaluates the stop code; the scope's
\* pending effect and its spawned task go with the scope
RectObserverDrop ==
    /\ observer.scope = "mounted"
    /\ ObserverStep([observer EXCEPT !.scope = "dropped",
                                     !.effect_pending = FALSE,
                                     !.js_queue = Append(@, "stop"),
                                     !.task = FALSE])

\* the div of a dropped RectObserver leaves the document
ElementRemoved ==
    /\ observer.scope = "dropped"
    /\ observer.el
    /\ ObserverStep([observer EXCEPT !.el = FALSE])

\* the JavaScript side runs the next evaluated code
JsStart ==
    /\ observer.js_queue # <<>>
    /\ Head(observer.js_queue) = "start"
    /\ Len(observer.channel) < MaxInFlight
    /\ ObserverStep([start_observer(observer) EXCEPT !.js_queue = Tail(@)])

JsStop ==
    /\ observer.js_queue # <<>>
    /\ Head(observer.js_queue) = "stop"
    /\ ObserverStep([stop_observer(observer) EXCEPT !.js_queue = Tail(@)])

\* the element takes width w: the ResizeObserver callback
ResizeObserved(w) ==
    /\ observer.ro
    /\ w # observer.rect.w
    /\ ObserverStep(sendRectRaf([observer EXCEPT !.rect.w = w]))

\* a scroll anywhere in the window moves the element to x: the scroll listener
ScrollEvent(x) ==
    /\ observer.scroll
    /\ ObserverStep(sendRectRaf([observer EXCEPT !.rect.x = x]))

\* the window is resized and the element laid out at r: the resize listener
ResizeEvent(r) ==
    /\ observer.resize
    /\ ObserverStep(sendRectRaf([observer EXCEPT !.rect = r]))

\* the scheduled animation frame callback
AnimationFrame ==
    /\ observer.frames > 0
    /\ Len(observer.channel) < MaxInFlight
    /\ ObserverStep(sendRect([observer EXCEPT !.rafId = FALSE,
                                              !.frames = @ - 1]))

\* the receive loop takes a payload and calls on_rect_changed
ReceiveReport ==
    /\ observer.task
    /\ observer.channel # <<>>
    /\ ObserverStep([observer EXCEPT
                        !.channel = Tail(@),
                        !.delivered = Some(Rect(Head(observer.channel).x,
                                                Head(observer.channel).y,
                                                Head(observer.channel).w,
                                                Head(observer.channel).h)),
                        !.delivered_after_stop = @ \/ observer.stopped])

NextObserver ==
    \/ RectObserverMount
    \/ ElementAttached
    \/ RectObserverEffect
    \/ RectObserverDrop
    \/ ElementRemoved
    \/ JsStart
    \/ JsStop
    \/ \E r \in ElementRects : ResizeObserved(r.w)
    \/ \E r \in ElementRects : ScrollEvent(r.x)
    \/ \E r \in ElementRects : ResizeEvent(r)
    \/ AnimationFrame
    \/ ReceiveReport

SpecObserver == InitObserver /\ [][NextObserver]_vars

----------------------------------------------------------------------------
(* The start and stop code of RectObserver run any number of times *)

CodeCall == [fn |-> "observer_code"]

\* the JavaScript side before any code has run, the element with the id in
\* the document or not
InitObserverCode ==
    /\ call = CodeCall
    /\ ret = None
    /\ NEXT_ID = 0
    /\ entries = EmptyEntries
    /\ portal_scope = [id \in PortalIds |-> "unmounted"]
    /\ anchor_scope = [id \in PortalIds |-> [mounted |-> FALSE, rect |-> None]]
    /\ content_scope = [id \in PortalIds |-> FALSE]
    /\ overlay_scope = [id \in PortalIds |-> FALSE]
    /\ panic = "none"
    /\ InitRender
    /\ \E e \in BOOLEAN, r \in ElementRects :
          observer = [ObserverUnmounted EXCEPT !.el = e, !.rect = r]

CodeStep(o) ==
    /\ call.fn = "observer_code"
    /\ observer' = o
    /\ UNCHANGED <<call, ret, registry_vars, render_vars>>

\* js_code_of_start_observer is evaluated
RunStartCode ==
    /\ Len(observer.channel) < MaxInFlight
    /\ CodeStep(start_observer(observer))

\* js_code_of_stop_observer is evaluated
RunStopCode ==
    /\ call.fn = "observer_code"
    /\ CodeStep(stop_observer(observer))

\* the element with the id enters or leaves the document
CodeElementToggle ==
    /\ call.fn = "observer_code"
    /\ CodeStep([observer EXCEPT !.el = ~@])

\* a scroll moves the element to r: the scroll listener
CodeScrollEvent(r) ==
    /\ observer.scroll
    /\ CodeStep(sendRectRaf([observer EXCEPT !.rect = r]))

\* the scheduled animation frame callback
CodeAnimationFrame ==
    /\ observer.frames > 0
    /\ Len(observer.channel) < MaxInFlight
    /\ CodeStep(sendRect([observer EXCEPT !.rafId = FALSE, !.frames = @ - 1]))

\* the Rust side takes a payload
CodeReceive ==
    /\ observer.channel # <<>>
    /\ CodeStep([observer EXCEPT !.channel = Tail(@)])

NextObserverCode ==
    \/ RunStartCode
    \/ RunStopCode
    \/ CodeElementToggle
    \/ \E r \in ElementRects : CodeScrollEvent(r)
    \/ CodeAnimationFrame
    \/ CodeReceive

SpecObserverCode == InitObserverCode /\ [][NextObserverCode]_vars

----------------------------------------------------------------------------
(* The components that write the registry *)

PortalProps(open, layer, anchor_rect, pv, ph) ==
    [open |-> open, layer |-> layer, anchor_rect |-> anchor_rect,
     vertical_param |-> pv, horizontal_param |-> ph]

PortalPropsSet ==
    {PortalProps(open, layer, custom,
                 DefaultVerticalParam, DefaultHorizontalParam) :
        open \in BOOLEAN, layer \in 0 .. MaxLayer,
        custom \in OptionOf({Rect(Px(1), Px(1), Px(1), Px(1))})}

ContentPropsSet == {ContentProps("c")}
OverlayPropsSet == {ContentProps("o")}
ReportedRects == {Rect(Px(1), Px(1), Px(1), Px(1))}

\* Portal: `entry_data`
entry_data(id, props) ==
    PortalEntryData(id, props.open, props.layer, FALSE, None,
                    props.anchor_rect, props.vertical_param,
                    props.horizontal_param, None, None)

\* alloc_id: the incremented counter
alloc_id_without_increment == Max(NEXT_ID, 1)

alloc_id == NEXT_ID + 1

Running == panic = "none" /\ call = [fn |-> "none"]

\* Portal, first render: allocates the id (use_memo) and registers the record
PortalMount(props) ==
    /\ Running
    /\ NEXT_ID < MaxPortals
    /\ LET id == alloc_id
       IN  /\ NEXT_ID' = id
           /\ entries' = insert(entries, id, entry_data(id, props))
           /\ portal_scope' = [portal_scope EXCEPT ![id] = "mounted"]
    /\ UNCHANGED <<render_vars, observer, call, ret, anchor_scope, content_scope, overlay_scope, panic>>

\* Portal, later render with the memoized id: inserts a fresh record again
PortalRerender(id, props) ==
    /\ Running
    /\ portal_scope[id] = "mounted"
    /\ entries' = insert(entries, id, entry_data(id, props))
    /\ UNCHANGED <<render_vars, observer, call, ret, NEXT_ID, portal_scope, anchor_scope,
                   content_scope, overlay_scope, panic>>

\* the effect of Portal's use_drop closure
PortalDropEffect_keeps_record(id) ==
    /\ entries' = entries
    /\ portal_scope' = [portal_scope EXCEPT ![id] = "dropped"]
    /\ UNCHANGED <<render_vars, observer, call, ret, NEXT_ID, anchor_scope, content_scope,
                   overlay_scope, panic>>

PortalDropEffect(id) ==
    /\ entries' = remove(entries, id)
    /\ portal_scope' = [portal_scope EXCEPT ![id] = "dropped"]
    /\ UNCHANGED <<render_vars, observer, call, ret, NEXT_ID, anchor_scope, content_scope,
                   overlay_scope, panic>>

HasChildScope(id) ==
    anchor_scope[id].mounted \/ content_scope[id] \/ overlay_scope[id]

\* Portal unmount, its children's scopes having been dropped before its own
PortalDrop(id) ==
    /\ Running
    /\ portal_scope[id] = "mounted"
    /\ ~HasChildScope(id)
    /\ PortalDropEffect(id)

\* Portal's use_drop closure running while a child's use_drop closure is
\* still to run
PortalDropBeforeChildren(id) ==
    /\ Running
    /\ portal_scope[id] = "mounted"
    /\ HasChildScope(id)
    /\ PortalDropEffect(id)

\* PortalAnchor render (first or later): get_mut(&id).unwrap(), then
\* has_anchor_component = true and measured_anchor_rect = rect()
PortalAnchor(id) ==
    /\ Running
    /\ portal_scope[id] = "mounted"
    /\ IF is_none(get(entries, id))
       THEN /\ panic' = "PortalAnchor"
            /\ UNCHANGED entries
       ELSE /\ entries' = [entries EXCEPT
                              ![id].has_anchor_component = TRUE,
                              ![id].measured_anchor_rect = anchor_scope[id].rect]
            /\ UNCHANGED panic
    /\ anchor_scope' = [anchor_scope EXCEPT ![id].mounted = TRUE]
    /\ UNCHANGED <<render_vars, observer, call, ret, NEXT_ID, portal_scope, content_scope,
                   overlay_scope>>

\* PortalAnchor's on_rect_changed: rect.set(Some(r))
PortalAnchorRectChanged(id, r) ==
    /\ Running
    /\ portal_scope[id] = "mounted"
    /\ anchor_scope[id].mounted
    /\ anchor_scope' = [anchor_scope EXCEPT ![id].rect = Some(r)]
    /\ UNCHANGED <<render_vars, observer, call, ret, NEXT_ID, entries, portal_scope, content_scope,
                   overlay_scope, panic>>

\* PortalAnchor's use_drop closure
PortalAnchorDrop(id) ==
    /\ Running
    /\ anchor_scope[id].mounted
    /\ IF is_none(get(entries, id))
       THEN /\ panic' = "PortalAnchor.use_drop"
            /\ UNCHANGED entries
       ELSE /\ entries' = [entries EXCEPT
                              ![id].has_anchor_component = FALSE,
                              ![id].measured_anchor_rect = None]
            /\ UNCHANGED panic
    /\ anchor_scope' = [anchor_scope EXCEPT
                           ![id] = [mounted |-> FALSE, rect |-> None]]
    /\ UNCHANGED <<render_vars, observer, call, ret, NEXT_ID, portal_scope, content_scope,
                   overlay_scope>>

\* PortalContent render: get_mut(&id).unwrap(), then content = Some(props)
PortalContent(id, props) ==
    /\ Running
    /\ portal_scope[id] = "mounted"
    /\ IF is_none(get(entries, id))
       THEN /\ panic' = "PortalContent"
            /\ UNCHANGED entries
       ELSE /\ entries' = [entries EXCEPT ![id].content = Some(props)]
            /\ UNCHANGED panic
    /\ content_scope' = [content_scope EXCEPT ![id] = TRUE]
    /\ UNCHANGED <<render_vars, observer, call, ret, NEXT_ID, portal_scope, anchor_scope,
                   overlay_scope>>

\* PortalContent's use_drop closure
PortalContentDrop(id) ==
    /\ Running
    /\ content_scope[id]
    /\ IF is_none(get(entries, id))
       THEN /\ panic' = "PortalContent.use_drop"
            /\ UNCHANGED entries
       ELSE /\ entries' = [entries EXCEPT ![id].content = None]
            /\ UNCHANGED panic
    /\ content_scope' = [content_scope EXCEPT ![id] = FALSE]
    /\ UNCHANGED <<render_vars, observer, call, ret, NEXT_ID, portal_scope, anchor_scope,
                   overlay_scope>>

\* PortalOverlay render: get_mut(&id).unwrap(), then overlay = Some(props)
PortalOverlay(id, props) ==
    /\ Running
    /\ portal_scope[id] = "mounted"
    /\ IF is_none(get(entries, id))
       THEN /\ panic' = "PortalOverlay"
            /\ UNCHANGED entries
       ELSE /\ entries' = [entries EXCEPT ![id].overlay = Some(props)]
            /\ UNCHANGED panic
    /\ overlay_scope' = [overlay_scope EXCEPT ![id] = TRUE]
    /\ UNCHANGED <<render_vars, observer, call, ret, NEXT_ID, portal_scope, anchor_scope,
                   content_scope>>

\* PortalOverlay's use_drop closure (it clears `content`)
PortalOverlayDrop(id) ==
    /\ Running
    /\ overlay_scope[id]
    /\ IF is_none(get(entries, id))
       THEN /\ panic' = "PortalOverlay.use_drop"
            /\ UNCHANGED entries
       ELSE /\ entries' = [entries EXCEPT ![id].content = None]
            /\ UNCHANGED panic
    /\ overlay_scope' = [overlay_scope EXCEPT ![id] = FALSE]
    /\ UNCHANGED <<render_vars, observer, call, ret, NEXT_ID, portal_scope, anchor_scope,
                   content_scope>>

Init ==
    /\ call = NoCall
    /\ ret = None
    /\ InitRegistry

\* The component tree as the framework drives it: a scope is dropped after
\* the scopes of its children.
Next ==
    \/ \E props \in PortalPropsSet : PortalMount(props)
    \/ \E id \in PortalIds, props \in PortalPropsSet : PortalRerender(id, props)
    \/ \E id \in PortalIds : PortalDrop(id)
    \/ \E id \in PortalIds : PortalAnchor(id)
    \/ \E id \in PortalIds, r \in ReportedRects : PortalAnchorRectChanged(id, r)
    \/ \E id \in PortalIds : PortalAnchorDrop(id)
    \/ \E id \in PortalIds, props \in ContentPropsSet : PortalContent(id, props)
    \/ \E id \in PortalIds : PortalContentDrop(id)
    \/ \E id \in PortalIds, props \in OverlayPropsSet : PortalOverlay(id, props)
    \/ \E id \in PortalIds : PortalOverlayDrop(id)

Spec == Init /\ [][Next]_vars

\* The same components, every Portal rendered with the defaults of PortalProps
DefaultPortalProps ==
    PortalProps(FALSE, 0, None, DefaultVerticalParam, DefaultHorizontalParam)

NextDefaultProps ==
    \/ PortalMount(DefaultPortalProps)
    \/ \E id \in PortalIds : PortalRerender(id, DefaultPortalProps)
    \/ \E id \in PortalIds : PortalDrop(id)
    \/ \E id \in PortalIds : PortalAnchor(id)
    \/ \E id \in PortalIds, r \in ReportedRects : PortalAnchorRectChanged(id, r)
    \/ \E id \in PortalIds : PortalAnchorDrop(id)
    \/ \E id \in PortalIds, props \in ContentPropsSet : PortalContent(id, props)
    \/ \E id \in PortalIds : PortalContentDrop(id)
    \/ \E id \in PortalIds, props \in OverlayPropsSet : PortalOverlay(id, props)
    \/ \E id \in PortalIds : PortalOverlayDrop(id)

SpecDefaultProps == Init /\ [][NextDefaultProps]_vars

\* The same components with the use_drop closures of one unmounting subtree
\* run in any order: the source puts no order between the closure of Portal
\* and the closures of its children.
NextAnyDropOrder ==
    \/ Next
    \/ \E id \in PortalIds : PortalDropBeforeChildren(id)

SpecAnyDropOrder == Init /\ [][NextAnyDropOrder]_vars

----------------------------------------------------------------------------
(* PortalOutlet and PortalOverlayEntry *)

\* A HashMap yields its records in an order the source does not control:
\* `order` is that order, a sequence holding each present id once.

\* PortalOutlet: the stable `sort_by_key(|(_, layer)| *layer)`
RECURSIVE sort_by_layer(_, _)
sort_by_layer(map, ids) ==
    IF ids = <<>> THEN <<>>
    ELSE LET front == sort_by_layer(map, SubSeq(ids, 1, Len(ids) - 1))
             x == ids[Len(ids)]
             le == SelectSeq(front, LAMBDA y : map[y].layer <= map[x].layer)
             gt == SelectSeq(front, LAMBDA y : map[y].layer > map[x].layer)
         IN  le \o <<x>> \o gt

\* PortalOutlet: `sorted_ids`
sorted_ids_unfiltered(map, order) ==
    sort_by_layer(map, order)

sorted_ids(map, order) ==
    sort_by_layer(map, SelectSeq(order, LAMBDA id : map[id].open))

\* PortalOutlet: `overlay_id` (rfind)
overlay_id_first(map, sorted) ==
    LET with_overlay == {i \in 1 .. Len(sorted) : is_some(map[sorted[i]].overlay)}
    IN  IF with_overlay = {} THEN None
        ELSE Some(sorted[CHOOSE i \in with_overlay :
                             \A j \in with_overlay : i <= j])

overlay_id(map, sorted) ==
    LET with_overlay == {i \in 1 .. Len(sorted) : is_some(map[sorted[i]].overlay)}
    IN  IF with_overlay = {} THEN None
        ELSE Some(sorted[CHOOSE i \in with_overlay :
                             \A j \in with_overlay : j <= i])

\* PortalOutlet: the z_index props, for the 0-based sorted position i
entry_z_index(i) == i * 2 + 1

overlay_z_index_above(i) == i * 2 + 2

overlay_z_index(i) == i * 2

PortalOverlayEntryProps(id, z_index) == [id |-> id, z_index |-> z_index]

\* What one render of PortalOverlayEntry produces
PortalOverlayEntry(props, map) ==
    LET found == get(map, props.id)
    IN  IF is_none(found) THEN [kind |-> "panic"]
        ELSE LET data == unwrap(found)
             IN  IF is_none(data.overlay) THEN [kind |-> "empty"]
                 ELSE [kind |-> "overlay", style |-> unwrap(data.overlay).style,
                       z_index |-> props.z_index, pointer_events |-> "auto"]

\* the components the `for` loop of PortalOutlet renders from 0-based position
\* i on, each with its props and with what it renders; sizes[i + 1] is the
\* `size` signal of the PortalEntry at position i
RECURSIVE outlet_children(_, _, _, _, _, _)
outlet_children(map, sorted, overlay, rect, sizes, i) ==
    IF i >= Len(sorted) THEN <<>>
    ELSE LET id == sorted[i + 1]
             entry_props == PortalEntryProps(id, entry_z_index(i), rect)
             overlay_props == PortalOverlayEntryProps(id, overlay_z_index(i))
             entry == [component |-> "PortalEntry", props |-> entry_props,
                       out |-> PortalEntry(entry_props, sizes[i + 1], map)]
             over == [component |-> "PortalOverlayEntry",
                      props |-> overlay_props,
                      out |-> PortalOverlayEntry(overlay_props, map)]
         IN  <<entry>>
             \o (IF overlay = Some(id) THEN <<over>> ELSE <<>>)
             \o outlet_children(map, sorted, overlay, rect, sizes, i + 1)

\* What one render of PortalOutlet puts inside its RectObserver, given the
\* registry, the order its values() come in, and the `rect` signal
PortalOutlet(map, order, rect, sizes) ==
    LET sorted == sorted_ids(map, order)
        overlay == overlay_id(map, sorted)
        outlet_measured == is_some(rect)
    IN  IF outlet_measured
        THEN outlet_children(map, sorted, overlay, unwrap(rect), sizes, 0)
        ELSE <<>>

\* PortalOutlet's on_rect_changed: rect.set(Some(r)), `current` being the
\* value the signal holds
outlet_on_rect_changed_first_only(current, r) ==
    IF is_some(current) THEN current ELSE Some(r)

outlet_on_rect_changed(current, r) == Some(r)

----------------------------------------------------------------------------
(* Inputs of PortalOutlet *)

IterationOrders(K) ==
    {q \in [1 .. Cardinality(K) -> K] :
        \A i, j \in 1 .. Cardinality(K) : q[i] = q[j] => i = j}

\* a registry whose records Portal, PortalContent and PortalOverlay have
\* written: per id the open flag o, the layer l, the content c, the overlay v
OutletRegistry(K, o, l, c, v) ==
    [k \in K |-> PortalEntryData(k, o[k], l[k], FALSE, None, None,
                                  DefaultVerticalParam, DefaultHorizontalParam,
                                  c[k], v[k])]

OutletCall(map, order, sizes) ==
    [fn |-> "PortalOutlet", entries |-> map, order |-> order, sizes |-> sizes]

\* open portals of layers 1, 2, 3 of which only layers 1 and 3 have overlays
ScenarioOutletCall ==
    OutletCall(
        [k \in 1 .. 3 |->
            PortalEntryData(k, TRUE, k, FALSE, None, None,
                            DefaultVerticalParam, DefaultHorizontalParam,
                            Some(ContentProps("c")),
                            IF k = 2 THEN None ELSE Some(ContentProps("o")))],
        <<2, 3, 1>>,
        [i \in 1 .. 3 |-> Some(Size2D(Px(1), Px(1)))])

\* an open portal of layer 1 iterated before a closed one and an open one of
\* layer 0
ScenarioClosedCall ==
    OutletCall(
        [k \in 1 .. 3 |->
            PortalEntryData(k, k # 2, IF k = 1 THEN 1 ELSE 0, FALSE, None, None,
                            DefaultVerticalParam, DefaultHorizontalParam,
                            Some(ContentProps("c")), None)],
        <<1, 2, 3>>,
        [i \in 1 .. 3 |-> Some(Size2D(Px(1), Px(1)))])

InitOutlet ==
    /\ \/ \E K \in SUBSET PortalIds :
            \E o \in [K -> BOOLEAN], l \in [K -> 0 .. MaxLayer],
               c \in [K -> OptionOf(ContentPropsSet)],
               v \in [K -> OptionOf(OverlayPropsSet)],
               order \in IterationOrders(K),
               sz \in OptionOf({Size2D(Px(1), Px(1))}) :
                call = OutletCall(OutletRegistry(K, o, l, c, v), order,
                                  [i \in 1 .. Len(order) |-> sz])
       \/ call \in {ScenarioOutletCall, ScenarioClosedCall}
    /\ ret = None
    /\ InitRegistry

\* the first render of PortalOutlet
RenderPortalOutlet ==
    /\ call.fn = "PortalOutlet"
    /\ ret = None
    /\ ret' = Some(PortalOutlet(call.entries, call.order, outlet_signal,
                                call.sizes))
    /\ UNCHANGED <<call, registry_vars, render_vars, observer>>

\* a rectangle report for the outlet container: on_rect_changed writes the
\* signal and PortalOutlet renders again
PortalOutletRectChanged(r) ==
    /\ call.fn = "PortalOutlet"
    /\ ret # None
    /\ outlet_signal' = outlet_on_rect_changed(outlet_signal, r)
    /\ last_outlet_report' = Some(r)
    /\ ret' = Some(PortalOutlet(call.entries, call.order, outlet_signal',
                                call.sizes))
    /\ UNCHANGED <<call, registry_vars, entry_size, size_reported,
                   size_writes, observer>>

NextOutlet ==
    \/ RenderPortalOutlet
    \/ \E r \in OutletRects : PortalOutletRectChanged(r)

SpecOutlet == InitOutlet /\ [][NextOutlet]_vars

----------------------------------------------------------------------------
(* The registry components together with the outlet and its entries *)

\* Here `ret` is what PortalOutlet and the entry components under it last
\* rendered.  PortalOutlet, PortalEntry and PortalOverlayEntry read the
\* registry signal while rendering, so each renders again after a write to it;
\* a component renders after the components above it that are due to render.

\* the ids of the map in ascending order, taken as the iteration order: the
\* order has no part in whether a lookup succeeds
AscendingOrder(map) ==
    CHOOSE q \in IterationOrders(DOMAIN map) :
        \A i, j \in 1 .. Len(q) : i < j => q[i] < q[j]

\* what PortalOutlet renders from the registry and the signals as they are
OutletNow ==
    PortalOutlet(entries, AscendingOrder(entries), outlet_signal,
                 [i \in 1 .. Cardinality(DOMAIN entries) |-> entry_size])

\* the components of a rendered tree with their props
Skeleton(items) ==
    [a \in 1 .. Len(items) |->
        [component |-> items[a].component, props |-> items[a].props]]

\* PortalOutlet is due to render: it has not rendered yet, or the registry or
\* its `rect` signal, both read in its render, give another list of children
OutletDirty_unsubscribed ==
    IF ret = None THEN TRUE
    ELSE unwrap(ret) = <<>> /\ OutletNow # <<>>

OutletDirty ==
    IF ret = None THEN TRUE
    ELSE Skeleton(unwrap(ret)) # Skeleton(OutletNow)

\* what the component of item `it` renders from the registry as it is
EntryNow(it) ==
    IF it.component = "PortalEntry"
    THEN PortalEntry(it.props, entry_size, entries)
    ELSE PortalOverlayEntry(it.props, entries)

TreePortalProps ==
    {PortalProps(open, 0, None, DefaultVerticalParam, DefaultHorizontalParam) :
        open \in BOOLEAN}

TreeOutletRects == {Rect(0, 0, Px(MaxCoord), Px(MaxCoord))}

TreeContentRects == {Rect(0, 0, Px(1), Px(1))}

MaxMounted == 1    \* Portals mounted at one time under the outlet

\* the children after a render of PortalOutlet: a child whose component and
\* props (PartialEq) are those of the child it replaces is not rendered again
OutletDiff(old, new) ==
    [a \in 1 .. Len(new) |->
        IF /\ a <= Len(old)
           /\ old[a].component = new[a].component
           /\ old[a].props = new[a].props
        THEN old[a] ELSE new[a]]

\* a Portal mounts while fewer than MaxMounted are mounted
TreePortalMount(props) ==
    /\ Cardinality(DOMAIN entries) < MaxMounted
    /\ PortalMount(props)

\* PortalOutlet renders, and with it the children it creates or changes
TreeOutletRender ==
    /\ Running
    /\ OutletDirty
    /\ ret' = Some(OutletDiff(IF ret = None THEN <<>> ELSE unwrap(ret),
                              OutletNow))
    /\ panic' = IF \E a \in 1 .. Len(OutletNow) : OutletNow[a].out.kind = "panic"
                THEN "PortalOutlet" ELSE panic
    /\ UNCHANGED <<call, NEXT_ID, entries, portal_scope, anchor_scope,
                   content_scope, overlay_scope, render_vars, observer>>

\* a rectangle report for the outlet container
TreeOutletRectChanged(r) ==
    /\ Running
    /\ ret # None
    /\ outlet_signal' = outlet_on_rect_changed(outlet_signal, r)
    /\ last_outlet_report' = Some(r)
    /\ UNCHANGED <<call, ret, registry_vars, entry_size, size_reported,
                   size_writes, observer>>

\* a rectangle report for a rendered content element
TreeEntryRectChanged(r) ==
    /\ Running
    /\ ret # None
    /\ \E a \in 1 .. Len(unwrap(ret)) : unwrap(ret)[a].out.kind = "content"
    /\ entry_size' = entry_on_rect_changed(entry_size, r)
    /\ size_reported' = TRUE
    /\ UNCHANGED <<call, ret, registry_vars, outlet_signal, last_outlet_report,
                   size_writes, observer>>

\* a Portal is unmounted with what it holds: the use_drop closures of its
\* PortalContent and PortalOverlay run, then its own
TreePortalDrop(id) ==
    /\ Running
    /\ portal_scope[id] = "mounted"
    /\ ~anchor_scope[id].mounted
    /\ entries' = remove(entries, id)
    /\ portal_scope' = [portal_scope EXCEPT ![id] = "dropped"]
    /\ content_scope' = [content_scope EXCEPT ![id] = FALSE]
    /\ overlay_scope' = [overlay_scope EXCEPT ![id] = FALSE]
    /\ UNCHANGED <<call, ret, NEXT_ID, anchor_scope, panic, render_vars,
                   observer>>

\* the PortalEntry or PortalOverlayEntry of item a renders again on its own,
\* PortalOutlet above it not being due
TreeEntryRender(a) ==
    /\ Running
    /\ ~OutletDirty
    /\ a \in 1 .. Len(unwrap(ret))
    /\ LET it == unwrap(ret)[a]
           out == EntryNow(it)
       IN  /\ out # it.out
           /\ IF out.kind = "panic"
              THEN /\ panic' = it.component
                   /\ UNCHANGED ret
              ELSE /\ ret' = Some([unwrap(ret) EXCEPT ![a].out = out])
                   /\ UNCHANGED panic
    /\ UNCHANGED <<call, NEXT_ID, entries, portal_scope, anchor_scope,
                   content_scope, overlay_scope, render_vars, observer>>

NextTree ==
    \/ \E props \in TreePortalProps : TreePortalMount(props)
    \/ \E id \in PortalIds, props \in TreePortalProps : PortalRerender(id, props)
    \/ \E id \in PortalIds : TreePortalDrop(id)
    \/ \E id \in PortalIds, props \in ContentPropsSet : PortalContent(id, props)
    \/ \E id \in PortalIds, props \in OverlayPropsSet : PortalOverlay(id, props)
    \/ TreeOutletRender
    \/ \E r \in TreeOutletRects : TreeOutletRectChanged(r)
    \/ \E r \in TreeContentRects : TreeEntryRectChanged(r)
    \/ \E a \in 1 .. 2 * MaxPortals : TreeEntryRender(a)

SpecTree == Init /\ [][NextTree]_vars

----------------------------------------------------------------------------
(* Properties of calc_content_range, checked under SpecRange *)

Returned == call.fn = "calc_content_range" /\ ret # None
Out == unwrap(ret).range
Calls == unwrap(ret).calls
Desired == desired(call.length, call.param, call.base)
Opposite(a) == IF a = "Start" THEN "End" ELSE "Start"
Size(r) == r.end - r.start

\* C1: with policy Flip and alignment Start or End, the output is the desired
\* range when it fits within bounds (one invocation); otherwise it is the
\* result of calc_content_range with the opposite alignment, the same spread
\* and offset and policy Clamp, after exactly one recursive call.
C1_FlipFitsOrClampsOpposite ==
    (Returned /\ call.param.overflow_policy = "Flip"
              /\ call.param.alignment \in {"Start", "End"}) =>
        IF call.bounds.start <= Desired.start /\ Desired.end <= call.bounds.end
        THEN Out = Desired /\ Calls = 1
        ELSE /\ Out = calc_content_range(
                        call.length,
                        AxisParam(Opposite(call.param.alignment),
                                  call.param.spread, call.param.offset, "Clamp"),
                        call.base, call.bounds)
             /\ Calls = 2

C1_Witness ==
    /\ Returned
    /\ call.param.overflow_policy = "Flip"
    /\ call.param.alignment = "Start"
    /\ call.length > 0
    /\ ~fits(Desired, call.bounds)
    /\ Out # Desired
    /\ Calls = 2

\* C2: with policy Clamp and alignment Start, the output is the desired range
\* if desired.end <= bounds.end; otherwise its end is bounds.end and its size
\* is length.
C2_ClampStart ==
    (Returned /\ call.param.overflow_policy = "Clamp"
              /\ call.param.alignment = "Start") =>
        IF Desired.end <= call.bounds.end
        THEN Out = Desired
        ELSE Out.end = call.bounds.end /\ Size(Out) = call.length

C2_Witness ==
    /\ Returned
    /\ call.param.overflow_policy = "Clamp"
    /\ call.param.alignment = "Start"
    /\ call.length > 0
    /\ Desired.end > call.bounds.end
    /\ Out.end = call.bounds.end

\* what PortalEntry renders for anchor {x:100,y:100,w:50,h:20}, content size
\* {w:80,h:30}, vertical param {End, Outside, 0, Clamp} and outlet
\* {x:0,y:0,w:800,h:h}
ScenarioRender(h) ==
    PortalEntry(
        PortalEntryProps(1, 1, Rect(0, 0, Px(800), Px(h))),
        Some(Size2D(Px(80), Px(30))),
        insert(EmptyEntries, 1,
               PortalEntryData(1, TRUE, 0, TRUE,
                               Some(Rect(Px(100), Px(100), Px(50), Px(20))),
                               None, AxisParam("End", "Outside", 0, "Clamp"),
                               DefaultHorizontalParam,
                               Some(ContentProps("c")), None)))

\* C3: with policy Clamp and alignment End, the range is slid only when
\* desired.start < bounds.start (then start = bounds.start, size length); in
\* every other case, desired.end > bounds.end included, the output is the
\* desired range.  The anchor {100,100,50,20} / height 30 scenario gives
\* content top 120 for outlet heights 150 and 130.
C3_ClampEnd ==
    /\ (Returned /\ call.param.overflow_policy = "Clamp"
                 /\ call.param.alignment = "End") =>
          IF Desired.start < call.bounds.start
          THEN Out.start = call.bounds.start /\ Size(Out) = call.length
          ELSE Out = Desired
    /\ \A h \in {150, 130} :
          (Returned /\ call = ScenarioRangeCall(h)) =>
              /\ Out.start = Px(120)
              /\ ScenarioRender(h).position # None
              /\ unwrap(ScenarioRender(h).position).top = Px(120)

C3_Witness ==
    /\ Returned
    /\ call = ScenarioRangeCall(130)
    /\ Desired.end > call.bounds.end
    /\ Out = Desired

\* C4 (as claimed): with policy Shrink the output start and end each lie in
\* [bounds.start, bounds.end], and the output is bounds when the desired
\* range contains bounds.
C4_Original ==
    (Returned /\ call.param.overflow_policy = "Shrink") =>
        /\ call.bounds.start <= Out.start /\ Out.start <= call.bounds.end
        /\ call.bounds.start <= Out.end /\ Out.end <= call.bounds.end
        /\ (Desired.start <= call.bounds.start /\ call.bounds.end <= Desired.end)
              => Out = call.bounds

Overlaps(d, bounds) == d.start <= bounds.end /\ bounds.start <= d.end

\* C4 (amended): with policy Shrink the output start is
\* max(desired.start, bounds.start) and the output end is
\* min(desired.end, bounds.end), so start >= bounds.start and
\* end <= bounds.end; both lie in [bounds.start, bounds.end] whenever the
\* desired range overlaps bounds, and the output is bounds when the desired
\* range contains bounds.
C4_ShrinkOneSided ==
    (Returned /\ call.param.overflow_policy = "Shrink") =>
        /\ Out.start >= call.bounds.start
        /\ Out.start \in {Desired.start, call.bounds.start}
        /\ Out.start >= Desired.start
        /\ Out.end <= call.bounds.end
        /\ Out.end \in {Desired.end, call.bounds.end}
        /\ Out.end <= Desired.end
        /\ Overlaps(Desired, call.bounds) =>
              /\ Out.start <= call.bounds.end
              /\ call.bounds.start <= Out.end
        /\ (Desired.start <= call.bounds.start /\ call.bounds.end <= Desired.end)
              => Out = call.bounds

C4_Witness ==
    /\ Returned
    /\ call.param.overflow_policy = "Shrink"
    /\ Desired.start > call.bounds.end
    /\ Out.start > call.bounds.end

\* C5 (as claimed): every returned range satisfies start <= end.
C5_Original == Returned => Out.start <= Out.end

\* C5 (amended): every range returned under Ignore, Clamp or Flip satisfies
\* start <= end; under Shrink the returned range is inverted exactly when the
\* desired range lies entirely outside bounds.
C5_NotInvertedUnlessShrinkDisjoint ==
    Returned =>
        IF call.param.overflow_policy = "Shrink"
        THEN (Out.start > Out.end) <=> ~Overlaps(Desired, call.bounds)
        ELSE Out.start <= Out.end

C5_Witness ==
    /\ Returned
    /\ call.param.overflow_policy = "Shrink"
    /\ call.length > 0
    /\ Desired.end < call.bounds.start
    /\ Out.start > Out.end

\* C6: with policy Ignore the output has size length, is placed by the
\* base-point formula of its (alignment, spread) case, and is the same for
\* every bounds.
C6_IgnorePlacement ==
    (Returned /\ call.param.overflow_policy = "Ignore") =>
        LET a == call.param.alignment
            s == call.param.spread
            o == call.param.offset
        IN  /\ Size(Out) = call.length
            /\ a = "Center" =>
                  Out.start + Out.end = call.base.start + call.base.end + 2 * o
            /\ (a = "Start" /\ s = "Inside") => Out.start = call.base.start + o
            /\ (a = "Start" /\ s = "Outside") => Out.end = call.base.start - o
            /\ (a = "End" /\ s = "Inside") => Out.end = call.base.end - o
            /\ (a = "End" /\ s = "Outside") => Out.start = call.base.end + o
            /\ \A b \in Ranges :
                  calc_content_range(call.length, call.param, call.base, b) = Out

C6_Witness ==
    /\ Returned
    /\ call.param.overflow_policy = "Ignore"
    /\ call.param.alignment = "Start"
    /\ call.param.spread = "Outside"
    /\ call.param.offset > 0
    /\ Out.start < call.bounds.start

\* C7: with alignment Center, policies Clamp and Flip return the result of
\* policy Ignore whatever bounds is, and the result is the same for spread
\* Inside and spread Outside.
C7_CenterNeverClamps ==
    (Returned /\ call.param.alignment = "Center") =>
        /\ call.param.overflow_policy \in {"Clamp", "Flip"} =>
              /\ Out = calc_content_range(
                          call.length,
                          [call.param EXCEPT !.overflow_policy = "Ignore"],
                          call.base, call.bounds)
              /\ Calls = 1
        /\ \A s \in Spread :
              Out = calc_content_range(
                        call.length, [call.param EXCEPT !.spread = s],
                        call.base, call.bounds)

C7_Witness ==
    /\ Returned
    /\ call.param.alignment = "Center"
    /\ call.param.overflow_policy = "Clamp"
    /\ Out.end > call.bounds.end
    /\ Out.start < call.bounds.start

----------------------------------------------------------------------------
(* Properties of calc_content_position, checked under SpecPosition *)

PositionReturned == call.fn = "calc_content_position" /\ ret # None

\* C8: with no anchor rectangle the result does not depend on the record's
\* vertical and horizontal spread; it is (h.start, v.start) where each axis
\* range is calc_content_range with spread Inside and the outlet bounds as
\* both base and bounds.  Bounds {0,0,800,600}, content {200,100} and Center
\* on both axes give (300, 250).
C8_NoAnchorIgnoresSpread ==
    /\ (PositionReturned /\ call.anchor = None) =>
          LET bv == Range(call.bounds.y, call.bounds.y + call.bounds.h)
              bh == Range(call.bounds.x, call.bounds.x + call.bounds.w)
              pv == call.data.vertical_param
              ph == call.data.horizontal_param
              v == calc_content_range(call.content_size.height,
                      AxisParam(pv.alignment, "Inside", pv.offset,
                                pv.overflow_policy), bv, bv)
              h == calc_content_range(call.content_size.width,
                      AxisParam(ph.alignment, "Inside", ph.offset,
                                ph.overflow_policy), bh, bh)
          IN  /\ unwrap(ret) = Point2D(h.start, v.start)
              /\ \A sv \in Spread, sh \in Spread :
                    calc_content_position(
                        [call.data EXCEPT !.vertical_param.spread = sv,
                                          !.horizontal_param.spread = sh],
                        call.content_size, None, call.bounds) = unwrap(ret)
    /\ (PositionReturned /\ call = ScenarioPositionCall) =>
          unwrap(ret) = Point2D(Px(300), Px(250))

C8_Witness ==
    /\ PositionReturned
    /\ call.anchor = None
    /\ call.data.vertical_param.spread = "Outside"
    /\ call.data.vertical_param.alignment = "Start"
    /\ call.data.horizontal_param.spread = "Outside"
    /\ unwrap(ret).y = call.bounds.y + call.data.vertical_param.offset

----------------------------------------------------------------------------
(* Properties of PortalEntry, checked under SpecEntry *)

EntryReturned == call.fn = "PortalEntry" /\ ret # None
EntryData == call.entries[call.props.id]

\* C9: when the record's custom anchor rectangle is set, what PortalEntry
\* renders is the same for every measured_anchor_rect (none included) and
\* every has_anchor_component, the portal is never held back as "anchor not
\* yet measured", and a rendered position is the one computed from the custom
\* rectangle.
C9_CustomAnchorWins ==
    (EntryReturned /\ EntryData.custom_anchor_rect # None) =>
        /\ \A m \in OptionOf(AnchorRects), h \in BOOLEAN :
              PortalEntry(call.props, call.size,
                          insert(call.entries, call.props.id,
                                 [EntryData EXCEPT
                                     !.measured_anchor_rect = m,
                                     !.has_anchor_component = h]))
                 = unwrap(ret)
        /\ EntryData.content # None => unwrap(ret).kind = "content"
        /\ (EntryData.content # None /\ call.size # None) =>
              LET pos == calc_content_position(
                             EntryData, unwrap(call.size),
                             EntryData.custom_anchor_rect,
                             call.props.outlet_rect)
              IN  unwrap(ret).position =
                      Some([top |-> pos.y - call.props.outlet_rect.y,
                            left |-> pos.x - call.props.outlet_rect.x])

C9_Witness ==
    /\ EntryReturned
    /\ EntryData.custom_anchor_rect # None
    /\ EntryData.has_anchor_component
    /\ EntryData.measured_anchor_rect = None
    /\ EntryData.content # None
    /\ call.size # None
    /\ unwrap(ret).kind = "content"
    /\ unwrap(ret).position # None

----------------------------------------------------------------------------
(* Properties of the registry *)

\* a step in which a child's use_drop closure runs for an id whose record
\* has been removed
StaleDrop(id) ==
    /\ portal_scope[id] = "dropped"
    /\ id \notin DOMAIN entries
    /\ \/ anchor_scope[id].mounted /\ ~anchor_scope'[id].mounted
       \/ content_scope[id] /\ ~content_scope'[id]
       \/ overlay_scope[id] /\ ~overlay_scope'[id]

\* C10: once a portal's record has been removed, a later update targeting
\* its id (here the unmount clean-up of PortalAnchor, PortalContent or
\* PortalOverlay) is a silent no-op: the registry is unchanged and nothing
\* panics.
C10_StaleUpdateIsSilentNoOp ==
    [][\A id \in PortalIds :
          StaleDrop(id) => (entries' = entries /\ panic' = "none")]_vars

\* a step in which PortalOverlay's use_drop closure runs on a present record
OverlayUnmount(id) ==
    /\ id \in DOMAIN entries
    /\ overlay_scope[id] /\ ~overlay_scope'[id]

\* a step in which PortalContent's use_drop closure runs on a present record
ContentUnmount(id) ==
    /\ id \in DOMAIN entries
    /\ content_scope[id] /\ ~content_scope'[id]

\* C11: each deregistration clears exactly its own registration: after a
\* PortalOverlay unmounts the record has overlay = None and its content is
\* unchanged; after a PortalContent unmounts the record has content = None
\* and its overlay is unchanged.
C11_DeregistrationClearsOwnField ==
    [][\A id \in PortalIds :
          /\ OverlayUnmount(id) =>
                /\ entries'[id].overlay = None
                /\ entries'[id].content = entries[id].content
          /\ ContentUnmount(id) =>
                /\ entries'[id].content = None
                /\ entries'[id].overlay = entries[id].overlay]_vars

\* C12: the registry holds a record for an id exactly when the Portal owning
\* that id is mounted; an id that was never allocated or whose Portal has
\* unmounted has no record.
C12_RecordIffMounted ==
    /\ DOMAIN entries = {id \in PortalIds : portal_scope[id] = "mounted"}
    /\ \A id \in PortalIds :
          /\ id > NEXT_ID => portal_scope[id] = "unmounted"
          /\ id \in DOMAIN entries => entries[id].id = id

C12_Witness ==
    /\ portal_scope[1] = "dropped"
    /\ portal_scope[2] = "mounted"
    /\ content_scope[2]
    /\ DOMAIN entries = {2}

----------------------------------------------------------------------------
(* Properties of PortalOutlet, checked under SpecOutlet *)

\* PortalOutlet has rendered with a measured container
OutletMeasured ==
    /\ call.fn = "PortalOutlet"
    /\ ret # None
    /\ is_some(outlet_signal)

OutletItems == unwrap(ret)

EntryItems == SelectSeq(OutletItems, LAMBDA it : it.component = "PortalEntry")

OverlayItems == {a \in 1 .. Len(OutletItems) :
                    OutletItems[a].component = "PortalOverlayEntry"}

ItemLayer(it) == call.entries[it.props.id].layer

\* C13: the ids the outlet renders are exactly the ids of the records with
\* open = true, each once, in non-decreasing order of layer.
C13_OpenOnlySortedByLayer ==
    OutletMeasured =>
        /\ {EntryItems[i].props.id : i \in 1 .. Len(EntryItems)}
              = {id \in DOMAIN call.entries : call.entries[id].open}
        /\ \A i, j \in 1 .. Len(EntryItems) :
              i < j => /\ EntryItems[i].props.id # EntryItems[j].props.id
                       /\ ItemLayer(EntryItems[i]) <= ItemLayer(EntryItems[j])

\* two open portals rendered by layer against the iteration order, and a
\* closed one left out
C13_Witness ==
    /\ OutletMeasured
    /\ Len(EntryItems) < Len(call.order)
    /\ Len(EntryItems) >= 2
    /\ \E i, j \in 1 .. Len(call.order) :
          /\ i < j
          /\ call.entries[call.order[i]].open
          /\ call.entries[call.order[j]].open
          /\ call.entries[call.order[i]].layer > call.entries[call.order[j]].layer

\* C14: among open portals of equal layer the render order is the order of
\* insertion into the registry.  Portal draws its id from the increasing
\* NEXT_ID counter and inserts its record in the same first render, so the
\* insertion order of the records present is the ascending order of their ids.
C14_TiesKeepInsertionOrder ==
    OutletMeasured =>
        \A i, j \in 1 .. Len(EntryItems) :
            (i < j /\ ItemLayer(EntryItems[i]) = ItemLayer(EntryItems[j]))
                => EntryItems[i].props.id < EntryItems[j].props.id

\* position in EntryItems of the last rendered portal with a registered overlay
EntriesWithOverlay ==
    {i \in 1 .. Len(EntryItems) :
        is_some(call.entries[EntryItems[i].props.id].overlay)}

\* C15: at most one overlay is rendered; it is the overlay of the last portal
\* of the layer-sorted open sequence that has one registered, and none is
\* rendered when no open portal has one.  With open portals of layers 1, 2, 3
\* and overlays on layers 1 and 3 only, the layer-3 portal's overlay is it.
C15_SingleTopmostOverlay ==
    OutletMeasured =>
        /\ Cardinality(OverlayItems) <= 1
        /\ EntriesWithOverlay = {} => OverlayItems = {}
        /\ EntriesWithOverlay # {} =>
              \E a \in OverlayItems :
                  /\ OutletItems[a].out.kind = "overlay"
                  /\ OutletItems[a].props.id =
                        EntryItems[CHOOSE i \in EntriesWithOverlay :
                                      \A j \in EntriesWithOverlay : j <= i].props.id
        /\ call = ScenarioOutletCall =>
              \E a \in OverlayItems :
                  /\ OutletItems[a].props.id = 3
                  /\ call.entries[OutletItems[a].props.id].layer = 3

C15_Witness ==
    /\ OutletMeasured
    /\ call = ScenarioOutletCall
    /\ Cardinality(EntriesWithOverlay) = 2
    /\ OverlayItems # {}

\* C16: the portal at sorted position i gets content z-index 2*i+1 and, when
\* it owns the rendered overlay, overlay z-index 2*i; the overlay is below its
\* own content, above the content of every lower position, and all assigned
\* z-indices differ.
C16_ZIndexInterleaving ==
    OutletMeasured =>
        /\ \A i \in 1 .. Len(EntryItems) :
              /\ EntryItems[i].props.z_index = 2 * (i - 1) + 1
              /\ EntryItems[i].out.kind = "content"
                    => EntryItems[i].out.z_index = 2 * (i - 1) + 1
        /\ \A a \in OverlayItems :
              \E i \in 1 .. Len(EntryItems) :
                  /\ EntryItems[i].props.id = OutletItems[a].props.id
                  /\ OutletItems[a].props.z_index = 2 * (i - 1)
                  /\ OutletItems[a].out.kind = "overlay"
                        => OutletItems[a].out.z_index = 2 * (i - 1)
                  /\ OutletItems[a].props.z_index < EntryItems[i].props.z_index
                  /\ \A j \in 1 .. (i - 1) :
                        EntryItems[j].props.z_index < OutletItems[a].props.z_index
        /\ \A a, b \in 1 .. Len(OutletItems) :
              a # b => OutletItems[a].props.z_index # OutletItems[b].props.z_index

\* an overlay rendered for a portal that has a portal below it
C16_Witness ==
    /\ OutletMeasured
    /\ Len(EntryItems) >= 2
    /\ \E a \in OverlayItems :
          /\ a > 2
          /\ OutletItems[a].out.kind = "overlay"
          /\ OutletItems[a - 1].out.kind = "content"

\* C17: an open portal that has no content registered, or whose anchor is
\* still to be measured with no custom rectangle, renders nothing: neither
\* content nor overlay.
C17_SkippedPortalRendersNothing ==
    OutletMeasured =>
        \A a \in 1 .. Len(OutletItems) :
            LET data == call.entries[OutletItems[a].props.id]
            IN  (is_none(data.content) \/ anchor_preparing(data))
                    => OutletItems[a].out.kind = "empty"

\* C18: before the first rectangle report for the outlet container nothing is
\* rendered, whatever the registry holds; afterwards every PortalEntry is
\* placed against the most recently reported rectangle.
C18_NothingBeforeMeasuredThenLatestRect ==
    (call.fn = "PortalOutlet" /\ ret # None) =>
        /\ is_none(last_outlet_report) => OutletItems = <<>>
        /\ is_some(last_outlet_report) =>
              /\ outlet_signal = last_outlet_report
              /\ \A a \in 1 .. Len(OutletItems) :
                    OutletItems[a].component = "PortalEntry"
                        => OutletItems[a].props.outlet_rect
                              = unwrap(last_outlet_report)

\* content placed against a reported rectangle whose origin is not (0, 0)
C18_Witness ==
    /\ OutletMeasured
    /\ last_outlet_report = Some(Rect(Px(1), Px(1), Px(2), Px(1)))
    /\ \E a \in 1 .. Len(OutletItems) :
          /\ OutletItems[a].out.kind = "content"
          /\ is_some(OutletItems[a].out.position)

----------------------------------------------------------------------------
(* Properties of a mounted PortalEntry, checked under SpecInstance *)

\* the PortalEntry has rendered the content element
ContentRendered ==
    /\ call.fn = "PortalEntryInstance"
    /\ ret # None
    /\ unwrap(ret).kind = "content"

ContentVisible ==
    /\ unwrap(ret).opacity = 1
    /\ unwrap(ret).pointer_events = "auto"
    /\ is_some(unwrap(ret).position)

ContentHidden ==
    /\ unwrap(ret).opacity = 0
    /\ unwrap(ret).pointer_events = "none"
    /\ is_none(unwrap(ret).position)

----------------------------------------------------------------------------
(* Properties of RectObserver, checked under SpecObserver *)

\* the RectObserver is unmounted and its stop code has run
ObserverStopped ==
    /\ call.fn = "RectObserver"
    /\ observer.scope = "dropped"
    /\ observer.stopped

\* C20: once the RectObserver is unmounted and its stop code has run, no
\* rectangle is delivered to on_rect_changed, even when a frame scheduled
\* before the stop sends one, and no ResizeObserver, scroll listener, resize
\* listener or registry record remains.
C20_NoDeliveryNoHandlesAfterStop ==
    ObserverStopped =>
        /\ ~observer.delivered_after_stop
        /\ ~observer.ro
        /\ ~observer.scroll
        /\ ~observer.resize
        /\ ~observer.reg

\* a frame scheduled before the stop has sent its payload after it
C20_Witness ==
    /\ ObserverStopped
    /\ observer.sent_after_stop
    /\ observer.channel # <<>>
    /\ is_some(observer.delivered)

----------------------------------------------------------------------------
(* Further properties of the registry components *)

\* C21: ids come strictly increasing from the one counter: a Portal that
\* mounts gets an id above every id handed out before, which no Portal has or
\* had; the id of a dropped Portal is never given again; and a Portal
\* registers under the same id in every render.
C21_IdsIncreaseNeverReused ==
    [][/\ NEXT_ID' >= NEXT_ID
       /\ \A id \in PortalIds :
             /\ (portal_scope[id] # "mounted" /\ portal_scope'[id] = "mounted")
                   => /\ portal_scope[id] = "unmounted"
                      /\ id > NEXT_ID
                      /\ NEXT_ID' = id
                      /\ entries'[id].id = id
             /\ (portal_scope[id] = "mounted" /\ portal_scope'[id] = "mounted")
                   => /\ id <= NEXT_ID
                      /\ id \in DOMAIN entries'
                      /\ entries'[id].id = id
             /\ portal_scope[id] = "dropped" => portal_scope'[id] = "dropped"
      ]_vars

\* a second Portal mounted after the first one was dropped, and rendered again
C21_Witness ==
    /\ NEXT_ID = 2
    /\ portal_scope[1] = "dropped"
    /\ portal_scope[2] = "mounted"
    /\ 1 \notin DOMAIN entries
    /\ entries[2].id = 2
    /\ anchor_scope[2].mounted

\* no component is mounted or dropped and no anchor rectangle is reported in
\* the step: a mounted component renders again
RerenderStep ==
    UNCHANGED <<portal_scope, anchor_scope, content_scope, overlay_scope>>

\* C22: a re-render of a mounted Portal changes only the fields derived from
\* its props: the record keeps its content, its overlay, its
\* has_anchor_component flag and its measured anchor rectangle.
C22_RerenderKeepsRegisteredFields ==
    [][\A id \in PortalIds :
          (RerenderStep /\ id \in DOMAIN entries /\ id \in DOMAIN entries')
              => /\ entries'[id].content = entries[id].content
                 /\ entries'[id].overlay = entries[id].overlay
                 /\ entries[id].has_anchor_component
                       => entries'[id].has_anchor_component
                 /\ is_some(entries[id].measured_anchor_rect)
                       => entries'[id].measured_anchor_rect
                             = entries[id].measured_anchor_rect
      ]_vars

----------------------------------------------------------------------------
(* Further properties of RectObserver, checked under SpecObserver *)

\* C23: whatever resize and scroll events arrive between two animation
\* frames, at most one frame callback is pending, and when it fires it sends
\* exactly one payload: the rectangle the element has at that moment.  Nothing
\* but a frame and the initial send of the start code sends a payload.
C23_OneSendPerFrame ==
    [][/\ observer'.frames <= 1
       /\ (observer'.frames = 1) = observer'.rafId
       /\ observer'.frames < observer.frames
             => observer'.channel = Append(observer.channel, observer.rect)
       /\ observer'.frames >= observer.frames
             => Len(observer'.channel) <= Len(observer.channel)
                   \/ (observer.js_queue # <<>> /\ observer'.reg /\ ~observer.reg)
      ]_vars

\* a frame has sent a rectangle other than the one the element had at the
\* event that scheduled the frame: a later event moved it before the frame
C23_Witness ==
    /\ call.fn = "RectObserver"
    /\ observer.frames = 0
    /\ observer.channel # <<>>
    /\ is_some(observer.event_rect)
    /\ observer.channel[Len(observer.channel)] # unwrap(observer.event_rect)
    /\ observer.channel[Len(observer.channel)] = observer.rect

----------------------------------------------------------------------------
(* Properties of the start and stop code, checked under SpecObserverCode *)

\* what the JavaScript side holds for the id
JsSide(o) ==
    [reg |-> o.reg, ro |-> o.ro, scroll |-> o.scroll, resize |-> o.resize,
     handle_sets |-> o.handle_sets, rafId |-> o.rafId, frames |-> o.frames,
     channel |-> o.channel]

\* C24: the stop code run for an id without a registry record (never
\* started, element not found at start, already stopped) changes nothing; the
\* start code run for a registered id changes nothing, so no second set of
\* handles is made; there is at most one set of handles, exactly when the
\* registry holds the record.
C24_StopIdempotentStartOnce ==
    [][/\ (RunStopCode /\ ~observer.reg)
             => JsSide(observer') = JsSide(observer)
       /\ (RunStartCode /\ observer.reg)
             => JsSide(observer') = JsSide(observer)
       /\ RunStopCode
             => /\ ~observer'.reg
                /\ JsSide(stop_observer(observer')) = JsSide(observer')
       /\ observer'.handle_sets <= 1
       /\ (observer'.handle_sets = 1) = observer'.reg
       /\ observer'.reg
             = (observer'.ro /\ observer'.scroll /\ observer'.resize)
      ]_vars

\* the stop code has run and the start code has then found no element: the
\* next stop finds no record
C24_Witness ==
    /\ call.fn = "observer_code"
    /\ observer.stopped
    /\ ~observer.reg
    /\ ~observer.el
    /\ observer.handle_sets = 0
    /\ observer.sent_after_stop

----------------------------------------------------------------------------
(* Properties of the rendered offset, checked under SpecTranslate *)

TranslateReturned == call.fn = "PortalEntryTranslated" /\ ret # None

TranslateData == call.entries[call.props.id]

\* C25: the rendered (left, top) is calc_content_position minus the origin of
\* the outlet rectangle, and moving the anchor rectangle and the outlet
\* rectangle by one vector leaves it unchanged, for every alignment, spread,
\* offset and overflow policy, with an anchor or without.
C25_OffsetIsContainerRelative ==
    TranslateReturned =>
        LET pos == calc_content_position(
                       TranslateData, unwrap(call.size),
                       entry_anchor_rect(TranslateData), call.props.outlet_rect)
        IN  /\ unwrap(ret).plain.kind = "content"
            /\ unwrap(ret).plain.position =
                  Some([top |-> pos.y - call.props.outlet_rect.y,
                        left |-> pos.x - call.props.outlet_rect.x])
            /\ unwrap(ret).moved = unwrap(ret).plain

\* an anchored portal flipped on one axis, rendered away from the viewport
\* origin in both layouts
C25_Witness ==
    /\ TranslateReturned
    /\ is_some(entry_anchor_rect(TranslateData))
    /\ TranslateData.vertical_param.overflow_policy = "Flip"
    /\ TranslateData.horizontal_param.overflow_policy = "Shrink"
    /\ call.props.outlet_rect.x > 0
    /\ unwrap(ret).moved.position = unwrap(ret).plain.position
    /\ unwrap(unwrap(ret).plain.position).left # 0

----------------------------------------------------------------------------
(* Properties of the rendered tree, checked under SpecTree *)

----------------------------------------------------------------------------
(* Properties of the measuring loop, checked under SpecLoop *)

\* the PortalEntry shows what it renders from the settled size, or nothing
Settled ==
    /\ call.fn = "PortalEntryLoop"
    /\ ret # None
    /\ unwrap(ret).kind = "content"
          => /\ entry_size = Some(call.content_size)
             /\ unwrap(ret) = PortalEntry(call.props, Some(call.content_size),
                                          call.entries)

\* C27: a report writes the size signal only when the reported size is not
\* the stored one (a report that moves only x or y writes nothing); with
\* anchor, outlet and content size settled there is at most one write, no
\* report after the first changes the signal or the render, and the rendered
\* position becomes stable.
C27_MeasureLoopQuiesces ==
    /\ [][/\ size_writes' <= 1
          /\ size_writes' # size_writes =>
                /\ entry_size # Some(call.content_size)
                /\ entry_size' = Some(call.content_size)
          /\ (entry_size = Some(call.content_size) /\ ret # None)
                => (entry_size' = entry_size /\ ret' = ret)
          /\ (size_reported /\ ret # None)
                => (entry_size' = entry_size /\ ret' = ret)
         ]_vars
    /\ <>[]Settled

\* the size measured before was another one: one write, content shown at the
\* position computed from the settled size, a later report changing nothing
C27_Witness ==
    /\ call.fn = "PortalEntryLoop"
    /\ ret # None
    /\ size_writes = 1
    /\ size_reported
    /\ entry_size = Some(call.content_size)
    /\ unwrap(ret).kind = "content"
    /\ is_some(unwrap(ret).position)

====
